---------------------------- MODULE Spec2Model ----------------------------
(***************************************************************************)
(* ZeroSum Gaming Arena frontend: the RPC adapter (getProvider,            *)
(* getEthersProvider, getContract, getViemClient, getViemWalletClient) and *)
(* the event hooks (useGameEvents, useGameEventRefresh,                    *)
(* useGameEventHistory).                                                   *)
(*                                                                         *)
(* Three specifications share the variables: SpecAdapter drives the        *)
(* adapter functions, SpecEvents the live subscriptions, SpecHistory the   *)
(* historical fetch.                                                       *)
(***************************************************************************)
EXTENDS Integers, Sequences, FiniteSets, TLC

(***************************************************************************)
(* JavaScript values.  Every value is a record [t, hi, lo, s]: t is the    *)
(* typeof tag, (hi, lo) the integer hi * 2^53 + lo of a number or bigint,  *)
(* s the text of a string or the identity of an Error object.              *)
(***************************************************************************)
Undefined == [t |-> "undefined", hi |-> 0, lo |-> 0, s |-> ""]

Num(n) == [t |-> "number", hi |-> 0, lo |-> n, s |-> ""]

BigNum(hi, lo) == [t |-> "number", hi |-> hi, lo |-> lo, s |-> ""]

BigInt(hi, lo) == [t |-> "bigint", hi |-> hi, lo |-> lo, s |-> ""]

Str(s) == [t |-> "string", hi |-> 0, lo |-> 0, s |-> s]

Err(s) == [t |-> "error", hi |-> 0, lo |-> 0, s |-> s]

\* ToBoolean: undefined, 0, 0n and "" are falsy, everything else truthy.
Truthy(x) ==
    CASE x.t = "undefined" -> FALSE
      [] x.t \in {"number", "bigint"} -> (x.hi # 0 \/ x.lo # 0)
      [] x.t = "string" -> x.s # ""
      [] OTHER -> TRUE

\* a || b
OrElse(a, b) == IF Truthy(a) THEN a ELSE b

\* a === b: same type and same value, no coercion.
StrictEq(a, b) == a = b

\* Number(x) of a bigint: exact below 2^53; in [2^53, 2^54) doubles are 2
\* apart and a tie rounds to the even mantissa.  Other types pass through
\* (undefined would give NaN, which equals nothing: kept as Undefined).
Number(x) ==
    IF x.t # "bigint" THEN x
    ELSE IF x.hi = 0 \/ x.lo % 2 = 0 THEN BigNum(x.hi, x.lo)
    ELSE IF (x.lo - 1) % 4 = 0 THEN BigNum(x.hi, x.lo - 1)
    ELSE BigNum(x.hi, x.lo + 1)

(***************************************************************************)
(* Bounds of the model.                                                    *)
(***************************************************************************)
MaxCalls == 2

MaxBatch == 2

MaxDelivered == 2

MaxLogs == 2

MaxFetches == 2

(***************************************************************************)
(* State.                                                                  *)
(***************************************************************************)
VARIABLES
    \* adapter: the call in progress or last completed
    fn,          \* name of the adapter function called ("" before any call)
    arg,         \* the chainId argument it was given
    outcome,     \* [kind, obj, url, chain, err] of the call
    trace,       \* console lines and library calls of the call, in order
    raised,      \* errors the libraries' constructors threw during the call
    ncalls,      \* calls made so far
    \* live subscriptions
    gameId, refreshGameId, enabled, hooks, delivered, onRefreshCount,
    \* historical fetch
    histGameId, publicClient, phase, fetched, result, fetchOutcome,
    histConsole, queries, nfetches

adapterVars == <<fn, arg, outcome, trace, raised, ncalls>>

eventVars == <<gameId, refreshGameId, enabled, hooks, delivered, onRefreshCount>>

historyVars == <<histGameId, publicClient, phase, fetched, result, fetchOutcome,
                 histConsole, queries, nfetches>>

vars == <<adapterVars, eventVars, historyVars>>

Line(level, msg, a) == [level |-> level, msg |-> msg, arg |-> a]

(***************************************************************************)
(* The adapter module.                                                     *)
(***************************************************************************)
BaseMainnetChainId == 8453

DefaultChainId == 84532

MainnetUrl == "https://mainnet.base.org"

TestnetUrl == "https://sepolia.base.org"

\* Faulty variant: chainId || 8453.
TargetChainIdDefaultMainnet(chainId) == OrElse(chainId, Num(BaseMainnetChainId))

\* const targetChainId = chainId || 84532
TargetChainId(chainId) == OrElse(chainId, Num(DefaultChainId))

\* targetChainId === 8453 ? "https://mainnet.base.org" : "https://sepolia.base.org"
SelectRpcUrl(targetChainId) ==
    IF StrictEq(targetChainId, Num(BaseMainnetChainId)) THEN MainnetUrl ELSE TestnetUrl

\* targetChainId === 8453 ? base : baseSepolia
SelectChain(targetChainId) ==
    IF StrictEq(targetChainId, Num(BaseMainnetChainId)) THEN "base" ELSE "baseSepolia"

Returned(obj, url, chain) ==
    [kind |-> "returned", obj |-> obj, url |-> url, chain |-> chain, err |-> Undefined]

Threw(error) ==
    [kind |-> "threw", obj |-> "", url |-> "", chain |-> "", err |-> error]

NoOutcome == [kind |-> "none", obj |-> "", url |-> "", chain |-> "", err |-> Undefined]

\* Faulty variant: the catch block throws a new error.
CatchWrap(msg, error, tr) ==
    [outcome |-> Threw(Err("wrapped")),
     trace |-> Append(tr, Line("error", msg, error))]

\* catch (error) { console.error(..., error); throw error; }
CatchRethrow(msg, error, tr) ==
    [outcome |-> Threw(error),
     trace |-> Append(tr, Line("error", msg, error))]

\* getProvider({ chainId } = {}); `thrown` is what new ethers.JsonRpcProvider
\* throws (Undefined when it constructs).
getProvider(chainId, thrown) ==
    LET targetChainId == TargetChainId(chainId)
        rpcUrl == SelectRpcUrl(targetChainId)
        tr == << Line("log", "Creating ethers provider for chain", targetChainId),
                 Line("log", "RPC URL", Str(rpcUrl)),
                 Line("call", "new ethers.JsonRpcProvider", Str(rpcUrl)) >>
    IN  IF thrown = Undefined
        THEN [outcome |-> Returned("JsonRpcProvider", rpcUrl, ""),
              trace |-> Append(tr, Line("log", "Ethers provider created successfully", Undefined))]
        ELSE CatchRethrow("Failed to create ethers provider", thrown, tr)

\* getEthersProvider(config, { chainId } = {})
getEthersProvider(chainId, thrown) == getProvider(chainId, thrown)

\* getContract(address, abi, { chainId } = {}); getProvider runs before the
\* try block, so what it throws leaves getContract as it is.
getContract(chainId, providerThrown, contractThrown) ==
    LET p == getProvider(chainId, providerThrown)
        tr == p.trace \o << Line("log", "Creating contract at", Str("address")),
                            Line("call", "new ethers.Contract", Str(p.outcome.url)) >>
    IN  IF p.outcome.kind = "threw" THEN p
        ELSE IF contractThrown = Undefined
        THEN [outcome |-> Returned("Contract", p.outcome.url, ""),
              trace |-> Append(tr, Line("log", "Contract created successfully", Undefined))]
        ELSE CatchRethrow("Failed to create contract", contractThrown, tr)

\* getViemClient(wagmiConfig = null, { chainId } = {}); httpThrown is what
\* http(rpcUrl) throws, clientThrown what createPublicClient throws.
getViemClient(chainId, httpThrown, clientThrown) ==
    LET targetChainId == TargetChainId(chainId)
        chain == SelectChain(targetChainId)
        rpcUrl == SelectRpcUrl(targetChainId)
        tr == << Line("log", "getViemClient called with", chainId),
                 Line("log", "Creating viem client for chain", Str(chain)),
                 Line("log", "RPC URL", Str(rpcUrl)),
                 Line("call", "http", Str(rpcUrl)) >>
        tr2 == Append(tr, Line("call", "createPublicClient", Str(chain)))
    IN  IF httpThrown # Undefined
        THEN CatchRethrow("Failed to create viem client", httpThrown, tr)
        ELSE IF clientThrown # Undefined
        THEN CatchRethrow("Failed to create viem client", clientThrown, tr2)
        ELSE [outcome |-> Returned("PublicClient", rpcUrl, chain),
              trace |-> Append(tr2, Line("log", "Viem client created successfully", Undefined))]

\* getViemWalletClient after its await settles; `rejected` is the reason
\* getConnectorClient rejected with (Undefined when it resolved).
getViemWalletClient(rejected, tr) ==
    IF rejected = Undefined
    THEN [outcome |-> Returned("WalletClient", "", ""),
          trace |-> Append(tr, Line("log", "Viem wallet client obtained", Undefined))]
    ELSE CatchRethrow("Failed to get viem wallet client", rejected, tr)

(***************************************************************************)
(* Adapter calls.  The caller's chainId and what each library constructor  *)
(* does (construct, or throw some error) are the inputs.                   *)
(***************************************************************************)
ChainIdArgs ==
    {Undefined, Num(0), Num(1), Num(BaseMainnetChainId), Num(DefaultChainId), Str("8453")}

Errors == {Err("E1"), Err("E2")}

MaybeError == {Undefined} \cup Errors

ThrownList(e) == IF e = Undefined THEN <<>> ELSE <<e>>

AdapterIdle ==
    /\ fn = ""
    /\ arg = Undefined
    /\ outcome = NoOutcome
    /\ trace = <<>>
    /\ raised = <<>>
    /\ ncalls = 0

CanCall == ncalls < MaxCalls /\ outcome.kind # "pending"

Complete(name, chainId, r, errs) ==
    /\ fn' = name
    /\ arg' = chainId
    /\ outcome' = r.outcome
    /\ trace' = r.trace
    /\ raised' = errs
    /\ ncalls' = ncalls + 1
    /\ UNCHANGED <<eventVars, historyVars>>

CallGetProvider ==
    /\ CanCall
    /\ \E chainId \in ChainIdArgs, e \in MaybeError :
          Complete("getProvider", chainId, getProvider(chainId, e), ThrownList(e))

CallGetEthersProvider ==
    /\ CanCall
    /\ \E chainId \in ChainIdArgs, e \in MaybeError :
          Complete("getEthersProvider", chainId, getEthersProvider(chainId, e), ThrownList(e))

\* new ethers.Contract runs only when getProvider returned.
CallGetContract ==
    /\ CanCall
    /\ \E chainId \in ChainIdArgs, e1 \in MaybeError, e2 \in MaybeError :
          /\ e1 # Undefined => e2 = Undefined
          /\ Complete("getContract", chainId, getContract(chainId, e1, e2),
                      ThrownList(e1) \o ThrownList(e2))

\* createPublicClient runs only when http(rpcUrl) returned.
CallGetViemClient ==
    /\ CanCall
    /\ \E chainId \in ChainIdArgs, e1 \in MaybeError, e2 \in MaybeError :
          /\ e1 # Undefined => e2 = Undefined
          /\ Complete("getViemClient", chainId, getViemClient(chainId, e1, e2),
                      ThrownList(e1) \o ThrownList(e2))

\* getViemWalletClient up to its await of getConnectorClient.
WalletClientBegin ==
    /\ CanCall
    /\ \E chainId \in ChainIdArgs :
          /\ fn' = "getViemWalletClient"
          /\ arg' = chainId
          /\ trace' = << Line("log", "Getting viem wallet client for write operations", Undefined),
                         Line("call", "getConnectorClient", chainId) >>
    /\ outcome' = [NoOutcome EXCEPT !.kind = "pending"]
    /\ raised' = <<>>
    /\ ncalls' = ncalls + 1
    /\ UNCHANGED <<eventVars, historyVars>>

\* getConnectorClient settles: the rest of getViemWalletClient.
WalletClientSettle ==
    /\ outcome.kind = "pending"
    /\ \E e \in MaybeError :
          LET r == getViemWalletClient(e, trace)
          IN  /\ outcome' = r.outcome
              /\ trace' = r.trace
              /\ raised' = ThrownList(e)
    /\ UNCHANGED <<fn, arg, ncalls, eventVars, historyVars>>

NextAdapter ==
    \/ CallGetProvider
    \/ CallGetEthersProvider
    \/ CallGetContract
    \/ CallGetViemClient
    \/ WalletClientBegin
    \/ WalletClientSettle

(***************************************************************************)
(* Claims about the adapter (specification SpecAdapter).                   *)
(***************************************************************************)
\* The positions in the trace of the calls of a library function.
CallsOf(names) ==
    {i \in 1..Len(trace) : trace[i].level = "call" /\ trace[i].msg \in names}

ErrorLines == {i \in 1..Len(trace) : trace[i].level = "error"}

SelectingFns == {"getProvider", "getEthersProvider", "getContract", "getViemClient"}

\* C2: every call of getProvider, getEthersProvider, getContract or
\* getViemClient uses https://mainnet.base.org exactly when its chainId
\* argument is the number 8453 and https://sepolia.base.org for every other
\* argument (absent, 0, other numbers, a string): that is the URL given to
\* the provider constructor or the http transport, exactly once, and the URL
\* of the object returned; and getViemClient gives createPublicClient the
\* chain base with the mainnet URL and baseSepolia with the testnet URL.
C2_NetworkSelectionTotal ==
    fn \in SelectingFns =>
        LET url == IF arg = Num(8453) THEN "https://mainnet.base.org"
                                      ELSE "https://sepolia.base.org"
            chain == IF url = "https://mainnet.base.org" THEN "base" ELSE "baseSepolia"
            urlCalls == CallsOf({"new ethers.JsonRpcProvider", "http"})
        IN  /\ Cardinality(urlCalls) = 1
            /\ \A i \in urlCalls : trace[i].arg = Str(url)
            /\ outcome.kind = "returned" => outcome.url = url
            /\ \A i \in CallsOf({"createPublicClient"}) : trace[i].arg = Str(chain)
            /\ (fn = "getViemClient" /\ outcome.kind = "returned") =>
                  /\ outcome.chain = chain
                  /\ Cardinality(CallsOf({"createPublicClient"})) = 1

\* getViemClient called without a chainId returned a testnet client.
C2_Witness ==
    /\ fn = "getViemClient"
    /\ arg = Undefined
    /\ outcome.kind = "returned"
    /\ outcome.url = TestnetUrl
    /\ outcome.chain = "baseSepolia"

\* C6: when a library constructor (JsonRpcProvider, Contract, http,
\* createPublicClient, getConnectorClient) throws during an adapter call, the
\* call ends by throwing that same error value, it returns nothing, the error
\* is logged with console.error exactly once, the failed constructor was
\* called once and nothing is called after it; for getContract this includes
\* a failure inside getProvider.
C6_RethrownUnchanged ==
    raised # <<>> =>
        /\ Len(raised) = 1
        /\ outcome.kind = "threw"
        /\ outcome.err = raised[1]
        /\ Cardinality(ErrorLines) = 1
        /\ \A i \in ErrorLines : trace[i].arg = raised[1] /\ i = Len(trace)
        /\ trace[Len(trace) - 1].level = "call"
        /\ \A i, j \in CallsOf({trace[Len(trace) - 1].msg}) : i = j

\* getContract failed inside its call to getProvider: the contract was never
\* reached and the provider's error left getContract.
C6_Witness ==
    /\ fn = "getContract"
    /\ raised = <<Err("E2")>>
    /\ outcome = Threw(Err("E2"))
    /\ CallsOf({"new ethers.JsonRpcProvider"}) # {}
    /\ CallsOf({"new ethers.Contract"}) = {}

(***************************************************************************)
(* hooks/useGameEvents: the live subscriptions.                            *)
(***************************************************************************)
\* The six useWatchContractEvent registrations, in source order.
WatchedEvents ==
    <<"PlayerJoined", "MoveMade", "GameFinished", "NumberGenerated",
      "TimeoutHandled", "GameCancelled">>

\* What `toast` of react-hot-toast exports as callable members; the module
\* has no toast.warning and no toast.info, so calling either is a TypeError.
ToastApi == {"success", "error", "loading", "custom", "promise", "dismiss", "remove"}

Toast(method, text, a, b) == [method |-> method, text |-> text, a |-> a, b |-> b]

\* switch (eventName) of handleEvent: the toast call each case makes.
ToastCall(eventName, log) ==
    CASE eventName = "PlayerJoined" ->
            Toast("success", "Player joined the game!", Undefined, Undefined)
      [] eventName = "MoveMade" ->
            Toast("success", "Move made: {subtraction} -> {newNumber}",
                  log.args.subtraction, log.args.newNumber)
      [] eventName = "GameFinished" ->
            Toast("success", "Game finished!", Undefined, Undefined)
      [] eventName = "NumberGenerated" ->
            Toast("success", "Game started! Number generated.", Undefined, Undefined)
      [] eventName = "TimeoutHandled" ->
            Toast("warning", "Timeout handled", Undefined, Undefined)
      [] eventName = "GameCancelled" ->
            Toast("info", "Game cancelled", Undefined, Undefined)
      [] OTHER -> Toast("", "", Undefined, Undefined)

\* Faulty variant: === in place of !==.
FilterRejectsInverted(target, eventGameId) ==
    target # Undefined /\ StrictEq(Number(eventGameId), target)

\* gameId !== undefined && Number(eventGameId) !== gameId
FilterRejects(target, eventGameId) ==
    target # Undefined /\ ~StrictEq(Number(eventGameId), target)

\* const eventData: GameEventData = { type, gameId, args, blockNumber, transactionHash }
EventData(eventName, log) ==
    [type |-> eventName,
     gameId |-> log.args.gameId,
     args |-> log.args,
     blockNumber |-> log.blockNumber,
     transactionHash |-> log.transactionHash]

\* What one mounted hook has done, in order: "toast" (a notification shown),
\* "onEvent" (the callback invoked with a record), "console" (console.log)
\* and "throw" (an error left handleEvent).
Effect(kind, v) == [kind |-> kind, v |-> v]

FreshHook == <<>>

\* The body of logs.forEach for one log.  done is set when the body threw:
\* forEach stops and the error leaves handleEvent.
HandleLog(st, cfg, eventName, log) ==
    IF FilterRejects(cfg.gameId, log.args.gameId)
    THEN [st |-> st, done |-> FALSE]
    ELSE
        LET eventData == EventData(eventName, log)
            t == ToastCall(eventName, log)
            toasting == cfg.showToasts /\ t.method # ""
        IN  IF toasting /\ t.method \notin ToastApi
            THEN [st |-> Append(st, Effect("throw", Err("TypeError"))), done |-> TRUE]
            ELSE [st |-> st \o (IF toasting THEN <<Effect("toast", t)>> ELSE <<>>)
                            \o (IF cfg.hasOnEvent THEN <<Effect("onEvent", eventData)>> ELSE <<>>)
                            \o <<Effect("console", eventData)>>,
                  done |-> FALSE]

RECURSIVE ForEach(_, _, _, _, _)
ForEach(st, cfg, eventName, logs, i) ==
    IF i > Len(logs) THEN st
    ELSE LET r == HandleLog(st, cfg, eventName, logs[i])
         IN  IF r.done THEN r.st ELSE ForEach(r.st, cfg, eventName, logs, i + 1)

\* handleEvent(eventName, logs)
handleEvent(st, cfg, eventName, logs) == ForEach(st, cfg, eventName, logs, 1)

(***************************************************************************)
(* Mounted hooks.  All of them watch the same contract, so every batch     *)
(* reaches each of them:                                                   *)
(*   notify    useGameEvents(gameId, onEvent)            showToasts = true *)
(*   silent    useGameEvents(gameId, onEvent, {showToasts: false})         *)
(*   toastOnly useGameEvents(gameId)                     no callback       *)
(*   refresh   useGameEventRefresh(refreshGameId, onRefresh)               *)
(***************************************************************************)
HookNames == {"notify", "silent", "toastOnly", "refresh"}

\* const { showToasts = true, enabled = true } = options || {}
HookConfig(h) ==
    CASE h = "notify" -> [gameId |-> gameId, showToasts |-> TRUE, hasOnEvent |-> TRUE]
      [] h = "silent" -> [gameId |-> gameId, showToasts |-> FALSE, hasOnEvent |-> TRUE]
      [] h = "toastOnly" -> [gameId |-> gameId, showToasts |-> TRUE, hasOnEvent |-> FALSE]
      [] h = "refresh" -> [gameId |-> refreshGameId, showToasts |-> TRUE, hasOnEvent |-> TRUE]

\* useGameEventRefresh: useGameEvents(gameId, (event) => { ...; onRefresh(); })
useGameEventRefresh(st, eventName, logs) ==
    handleEvent(st, HookConfig("refresh"), eventName, logs)

Log(id, sub, new, block, tx) ==
    [args |-> [gameId |-> id, subtraction |-> sub, newNumber |-> new],
     blockNumber |-> block, transactionHash |-> tx]

\* Logs the transport may deliver: games 1 and 2, and game 2^53 + 1, whose
\* identifier Number() rounds to 2^53.
LogPool ==
    { Log(BigInt(0, 1), Num(3), Num(7), 10, "0xa1"),
      Log(BigInt(0, 2), Num(1), Num(4), 11, "0xb2"),
      Log(BigInt(1, 1), Num(2), Num(5), 12, "0xc3") }

GameIdArgs == {Undefined, Num(1), BigNum(1, 0)}

RefreshGameIdArgs == {Num(1), BigNum(1, 0)}

RECURSIVE SeqsUpTo(_, _)
SeqsUpTo(S, n) ==
    IF n = 0 THEN {<<>>}
    ELSE LET shorter == SeqsUpTo(S, n - 1)
         IN  shorter \cup {Append(q, x) : q \in {r \in shorter : Len(r) = n - 1}, x \in S}

EventsIdle ==
    /\ gameId = Undefined
    /\ refreshGameId = Num(1)
    /\ enabled = TRUE
    /\ hooks = [h \in HookNames |-> FreshHook]
    /\ delivered = <<>>
    /\ onRefreshCount = 0

EventsInit ==
    /\ gameId \in GameIdArgs
    /\ refreshGameId \in RefreshGameIdArgs
    /\ enabled \in BOOLEAN
    /\ hooks = [h \in HookNames |-> FreshHook]
    /\ delivered = <<>>
    /\ onRefreshCount = 0

\* The effects of one kind, in order, without the tag.
Of(kind, st) == LET picked == SelectSeq(st, LAMBDA e : e.kind = kind)
                IN  [i \in 1..Len(picked) |-> picked[i].v]

CallsIn(st) == Of("onEvent", st)

ToastsIn(st) == Of("toast", st)

Tagged(eventName, logs) == [i \in 1..Len(logs) |-> [eventName |-> eventName, log |-> logs[i]]]

\* The transport calls onLogs of the subscription for eventName with a batch:
\* every mounted hook runs handleEvent(eventName, logs).
Deliver(eventName, logs) ==
    /\ Len(delivered) + Len(logs) <= MaxDelivered
    /\ LET after == [h \in HookNames |->
                        IF h = "refresh"
                        THEN useGameEventRefresh(hooks[h], eventName, logs)
                        ELSE handleEvent(hooks[h], HookConfig(h), eventName, logs)]
       IN  /\ hooks' = after
           /\ onRefreshCount' = onRefreshCount
                                  + (Len(CallsIn(after["refresh"])) - Len(CallsIn(hooks["refresh"])))
    /\ delivered' = delivered \o Tagged(eventName, logs)
    /\ UNCHANGED <<gameId, refreshGameId, enabled, adapterVars, historyVars>>

Batches == SeqsUpTo(LogPool, MaxBatch) \ {<<>>}

\* useWatchContractEvent({ address, abi, eventName, onLogs, enabled }), one
\* registration per event name; a disabled registration receives nothing.
OnPlayerJoined ==
    /\ enabled
    /\ \E logs \in Batches : Deliver("PlayerJoined", logs)

OnMoveMade ==
    /\ enabled
    /\ \E logs \in Batches : Deliver("MoveMade", logs)

OnGameFinished ==
    /\ enabled
    /\ \E logs \in Batches : Deliver("GameFinished", logs)

OnNumberGenerated ==
    /\ enabled
    /\ \E logs \in Batches : Deliver("NumberGenerated", logs)

OnTimeoutHandled ==
    /\ enabled
    /\ \E logs \in Batches : Deliver("TimeoutHandled", logs)

OnGameCancelled ==
    /\ enabled
    /\ \E logs \in Batches : Deliver("GameCancelled", logs)

NextEvents ==
    \/ OnPlayerJoined
    \/ OnMoveMade
    \/ OnGameFinished
    \/ OnNumberGenerated
    \/ OnTimeoutHandled
    \/ OnGameCancelled


(***************************************************************************)
(* Claims about the live subscriptions (specification SpecEvents).         *)
(***************************************************************************)
\* The gameId argument hook h was mounted with.
TargetOf(h) == IF h = "refresh" THEN refreshGameId ELSE gameId

\* The delivered logs a hook with this target is to process: all of them
\* without a target, else those whose identifier, as a number, equals it.
Passing(target) ==
    SelectSeq(delivered,
              LAMBDA d : target = Undefined \/ Number(d.log.args.gameId) = target)

\* The record the callback is to receive for a delivered log.
RecordFor(d) ==
    [type |-> d.eventName,
     gameId |-> d.log.args.gameId,
     args |-> d.log.args,
     blockNumber |-> d.log.blockNumber,
     transactionHash |-> d.log.transactionHash]

\* The notification level of each event kind.
LevelFor(eventName) ==
    CASE eventName \in {"PlayerJoined", "MoveMade", "GameFinished", "NumberGenerated"} -> "success"
      [] eventName = "TimeoutHandled" -> "warning"
      [] eventName = "GameCancelled" -> "info"

\* The fixed notification text of each event kind.
TemplateFor(eventName) ==
    CASE eventName = "PlayerJoined" -> "Player joined the game!"
      [] eventName = "MoveMade" -> "Move made: {subtraction} -> {newNumber}"
      [] eventName = "GameFinished" -> "Game finished!"
      [] eventName = "NumberGenerated" -> "Game started! Number generated."
      [] eventName = "TimeoutHandled" -> "Timeout handled"
      [] eventName = "GameCancelled" -> "Game cancelled"

\* C1: with a gameId specified, no hook ever invokes its callback for a
\* delivered log whose game identifier, converted to a number, differs from
\* that gameId, whatever the subscription and the batches.
C1_NonMatchingNeverForwarded ==
    \A h \in {"notify", "silent", "refresh"} :
        TargetOf(h) # Undefined =>
            \A i \in 1..Len(delivered) :
                Number(delivered[i].log.args.gameId) # TargetOf(h) =>
                    \A c \in {CallsIn(hooks[h])[j] : j \in 1..Len(CallsIn(hooks[h]))} :
                        c.transactionHash # delivered[i].log.transactionHash

\* With gameId 2^53, one MoveMade batch held the log of game 1 and the log of
\* game 2^53 + 1: only the second reached the callback.
C1_Witness ==
    /\ gameId = BigNum(1, 0)
    /\ Len(delivered) = 2
    /\ delivered[1].eventName = "MoveMade"
    /\ delivered[1].log.args.gameId = BigInt(0, 1)
    /\ delivered[2].log.args.gameId = BigInt(1, 1)
    /\ Len(CallsIn(hooks["silent"])) = 1
    /\ CallsIn(hooks["silent"])[1].transactionHash = "0xc3"

\* C5: useGameEventRefresh(gameId, onRefresh) has invoked onRefresh once for
\* every delivered log, of any of the six kinds, whose game identifier equals
\* gameId, and never for another log.
C5_RefreshOncePerMatchingLog ==
    onRefreshCount = Len(Passing(refreshGameId))

\* C7: with showToasts true every delivered log that passes the filter has
\* produced exactly one notification, with the level of its kind (success for
\* PlayerJoined, MoveMade, GameFinished, NumberGenerated; warning for
\* TimeoutHandled; info for GameCancelled) and the fixed text of its kind, in
\* order; a log the filter rejects produces none, and with showToasts false
\* there is no notification.
C7_ToastPerKind ==
    /\ ToastsIn(hooks["silent"]) = <<>>
    /\ \A h \in {"notify", "toastOnly"} :
          LET toasts == ToastsIn(hooks[h])
              passing == Passing(TargetOf(h))
          IN  /\ Len(toasts) = Len(passing)
              /\ \A k \in 1..Len(toasts) :
                    /\ toasts[k].method = LevelFor(passing[k].eventName)
                    /\ toasts[k].text = TemplateFor(passing[k].eventName)

\* C8: for the same batches and the same gameId the hook mounted with
\* showToasts true and the hook mounted with showToasts false have made the
\* same sequence of onEvent invocations.
C8_CallbacksIndependentOfToasts ==
    CallsIn(hooks["notify"]) = CallsIn(hooks["silent"])

\* C9: the callback has received, in delivery order and once per delivery,
\* the record of every delivered log that passes the filter (every delivered
\* log when no gameId is given), with type the subscription's name and
\* gameId, args, blockNumber and transactionHash those of the log; and each
\* notification comes before the callback for the same log.
C9_ForwardedInOrder ==
    /\ \A h \in {"notify", "silent"} :
          LET calls == CallsIn(hooks[h])
              passing == Passing(TargetOf(h))
          IN  calls = [k \in 1..Len(passing) |-> RecordFor(passing[k])]
    /\ \A i \in 1..Len(hooks["notify"]) :
          hooks["notify"][i].kind = "toast" =>
              /\ i < Len(hooks["notify"])
              /\ hooks["notify"][i + 1].kind = "onEvent"

(***************************************************************************)
(* hooks/useGameEvents: useGameEventHistory.fetchEvents.                   *)
(***************************************************************************)
\* Event names of ZeroSumSimplifiedABI (the GameEventType union).
AbiEvents ==
    {"GameCreated", "PlayerJoined", "MoveMade", "GameFinished", "NumberGenerated",
     "TimeoutHandled", "GameCancelled"}

\* The module's import statements bind useEffect, useCallback,
\* useWatchContractEvent, usePublicClient, useContractAddress,
\* ZeroSumSimplifiedABI and toast.  decodeEventLog is bound by none of them
\* and declared nowhere else in the module.
decodeEventLogInScope == FALSE

Decoded(eventName, args) ==
    [threw |-> FALSE, error |-> Undefined, eventName |-> eventName, args |-> args]

DecodeThrew(error, args) ==
    [threw |-> TRUE, error |-> error, eventName |-> "", args |-> args]

\* decodeEventLog({ abi, data, topics }): evaluating an unbound identifier is
\* a ReferenceError; viem's function would return the event name and
\* arguments of a log whose topic is an event of the ABI and throw otherwise.
decodeEventLog(log) ==
    IF ~decodeEventLogInScope THEN DecodeThrew(Err("ReferenceError"), log.args)
    ELSE IF log.sig \in AbiEvents THEN Decoded(log.sig, log.args)
    ELSE DecodeThrew(Err("AbiEventSignatureNotFoundError"), log.args)

\* Faulty variant: catch { return true; }.
FilterOnThrowKeeps(error) == TRUE

\* catch { return false; } of the filter callback
FilterOnThrow(error) == FALSE

\* the callback given to logs.filter
FilterCallback(log, target) ==
    LET decoded == decodeEventLog(log)
    IN  IF decoded.threw THEN FilterOnThrow(decoded.error)
        ELSE Truthy(decoded.args.gameId) /\ StrictEq(Number(decoded.args.gameId), target)

\* the callback given to .map: it decodes again, outside any inner try
MapCallback(log) ==
    LET decoded == decodeEventLog(log)
    IN  IF decoded.threw THEN [threw |-> TRUE, error |-> decoded.error, value |-> <<>>]
        ELSE [threw |-> FALSE, error |-> Undefined,
              value |-> << [type |-> decoded.eventName,
                            gameId |-> decoded.args.gameId,
                            args |-> decoded.args,
                            blockNumber |-> log.blockNumber,
                            transactionHash |-> log.transactionHash] >>]

RECURSIVE MapAll(_, _)
MapAll(logs, i) ==
    IF i > Len(logs) THEN [threw |-> FALSE, error |-> Undefined, value |-> <<>>]
    ELSE LET head == MapCallback(logs[i])
         IN  IF head.threw THEN head
             ELSE LET rest == MapAll(logs, i + 1)
                  IN  IF rest.threw THEN rest
                      ELSE [rest EXCEPT !.value = head.value \o @]

\* logs.filter(...).map(...)
FilterMap(logs, target) ==
    MapAll(SelectSeq(logs, LAMBDA log : FilterCallback(log, target)), 1)

Fulfilled == [kind |-> "fulfilled", err |-> Undefined]

\* Faulty variant: the catch block rethrows, so the promise rejects.
FetchCatchRethrows(error, log) ==
    [result |-> <<>>,
     outcome |-> [kind |-> "rejected", err |-> error],
     console |-> Append(log, Line("error", "Error fetching event history:", error))]

\* catch (error) { console.error('Error fetching event history:', error); return []; }
FetchCatch(error, log) ==
    [result |-> <<>>,
     outcome |-> Fulfilled,
     console |-> Append(log, Line("error", "Error fetching event history:", error))]

\* fetchEvents from the point where publicClient.getLogs resolved with logs
fetchEvents(logs, target, log) ==
    LET gameEvents == FilterMap(logs, target)
    IN  IF gameEvents.threw THEN FetchCatch(gameEvents.error, log)
        ELSE [result |-> gameEvents.value, outcome |-> Fulfilled, console |-> log]

RawLog(sig, id, block, tx) ==
    [sig |-> sig,
     args |-> [gameId |-> id, subtraction |-> Num(1), newNumber |-> Num(2)],
     blockNumber |-> block, transactionHash |-> tx]

\* Logs the node may return for the contract address: events of games 0, 1
\* and 2, and a log whose topic is no event of the ABI.
RawLogPool ==
    { RawLog("MoveMade", BigInt(0, 1), 20, "0xd1"),
      RawLog("PlayerJoined", BigInt(0, 2), 21, "0xd2"),
      RawLog("GameCancelled", BigInt(0, 0), 22, "0xd3"),
      RawLog("Unknown", BigInt(0, 1), 23, "0xd4") }

HistGameIdArgs == {Num(0), Num(1), Num(2)}

NotFetched == [kind |-> "none", logs |-> <<>>, err |-> Undefined]

HistoryIdle ==
    /\ histGameId = Num(1)
    /\ publicClient = TRUE
    /\ phase = "idle"
    /\ fetched = NotFetched
    /\ result = <<>>
    /\ fetchOutcome = [kind |-> "none", err |-> Undefined]
    /\ histConsole = <<>>
    /\ queries = 0
    /\ nfetches = 0

HistoryInit ==
    /\ histGameId \in HistGameIdArgs
    /\ publicClient \in BOOLEAN
    /\ phase = "idle"
    /\ fetched = NotFetched
    /\ result = <<>>
    /\ fetchOutcome = [kind |-> "none", err |-> Undefined]
    /\ histConsole = <<>>
    /\ queries = 0
    /\ nfetches = 0

\* fetchEvents is called: if (!publicClient) return []
FetchNoClient ==
    /\ phase # "awaiting"
    /\ nfetches < MaxFetches
    /\ ~publicClient
    /\ phase' = "done"
    /\ fetched' = NotFetched
    /\ result' = <<>>
    /\ fetchOutcome' = Fulfilled
    /\ histConsole' = <<>>
    /\ queries' = 0
    /\ nfetches' = nfetches + 1
    /\ UNCHANGED <<histGameId, publicClient, adapterVars, eventVars>>

\* fetchEvents is called: await publicClient.getLogs({ address, fromBlock, toBlock })
FetchStart ==
    /\ phase # "awaiting"
    /\ nfetches < MaxFetches
    /\ publicClient
    /\ phase' = "awaiting"
    /\ fetched' = NotFetched
    /\ result' = <<>>
    /\ fetchOutcome' = [kind |-> "none", err |-> Undefined]
    /\ histConsole' = <<>>
    /\ queries' = 1
    /\ nfetches' = nfetches + 1
    /\ UNCHANGED <<histGameId, publicClient, adapterVars, eventVars>>

\* getLogs resolves: filter, map, return
GetLogsResolve ==
    /\ phase = "awaiting"
    /\ \E logs \in SeqsUpTo(RawLogPool, MaxLogs) :
          LET r == fetchEvents(logs, histGameId, histConsole)
          IN  /\ fetched' = [kind |-> "resolved", logs |-> logs, err |-> Undefined]
              /\ result' = r.result
              /\ fetchOutcome' = r.outcome
              /\ histConsole' = r.console
    /\ phase' = "done"
    /\ UNCHANGED <<histGameId, publicClient, queries, nfetches, adapterVars, eventVars>>

\* getLogs rejects: the outer catch
GetLogsReject ==
    /\ phase = "awaiting"
    /\ \E e \in Errors :
          LET r == FetchCatch(e, histConsole)
          IN  /\ fetched' = [kind |-> "rejected", logs |-> <<>>, err |-> e]
              /\ result' = r.result
              /\ fetchOutcome' = r.outcome
              /\ histConsole' = r.console
    /\ phase' = "done"
    /\ UNCHANGED <<histGameId, publicClient, queries, nfetches, adapterVars, eventVars>>

NextHistory ==
    \/ FetchNoClient
    \/ FetchStart
    \/ GetLogsResolve
    \/ GetLogsReject

(***************************************************************************)
(* Claims about the historical fetch (specification SpecHistory).          *)
(***************************************************************************)
\* The log decodes against the contract ABI: its topic is one of its events.
DecodesAgainstAbi(log) == log.sig \in AbiEvents

\* The records the fetch is to return for the queried logs: one per log that
\* decodes against the ABI with the target's game identifier, in query order.
ExpectedHistory(logs, target) ==
    LET kept == SelectSeq(logs, LAMBDA log :
                    DecodesAgainstAbi(log) /\ Number(log.args.gameId) = target)
    IN  [k \in 1..Len(kept) |->
            [type |-> kept[k].sig,
             gameId |-> kept[k].args.gameId,
             args |-> kept[k].args,
             blockNumber |-> kept[k].blockNumber,
             transactionHash |-> kept[k].transactionHash]]

HistErrorLines == {i \in 1..Len(histConsole) : histConsole[i].level = "error"}

\* C3: when the range query resolved, fetchEvents returns exactly one record,
\* in query order, for each log that decodes against the ABI and whose game
\* identifier equals the target, and nothing else.
C3_ExactDecodedSet ==
    (phase = "done" /\ fetched.kind = "resolved") =>
        result = ExpectedHistory(fetched.logs, histGameId)

\* C4: when the range query resolved, no log whose decode throws has a record
\* in the result; the result is the concatenation of what each log yields
\* queried alone, so one log's decode failure leaves the others' inclusion as
\* it is; and the fetch fulfils without logging or raising any error.
C4_DecodeFailuresSwallowed ==
    (phase = "done" /\ fetched.kind = "resolved") =>
        /\ fetchOutcome = Fulfilled
        /\ HistErrorLines = {}
        /\ \A i \in 1..Len(fetched.logs) :
              decodeEventLog(fetched.logs[i]).threw =>
                  \A k \in 1..Len(result) :
                      result[k].transactionHash # fetched.logs[i].transactionHash
        /\ Len(result) <= Len(fetched.logs)
        /\ \A i \in 1..Len(fetched.logs) :
              LET alone == fetchEvents(<<fetched.logs[i]>>, histGameId, <<>>).result
              IN  \A r \in {alone[k] : k \in 1..Len(alone)} :
                      \E k \in 1..Len(result) : result[k] = r

\* A query returned a log that is no event of the ABI together with an event
\* log: the fetch fulfilled, without the undecodable log and without an error.
C4_Witness ==
    /\ phase = "done"
    /\ fetched.kind = "resolved"
    /\ Len(fetched.logs) = 2
    /\ fetched.logs[1].sig = "Unknown"
    /\ fetched.logs[2].sig = "MoveMade"
    /\ fetchOutcome = Fulfilled
    /\ \A k \in 1..Len(result) : result[k].transactionHash # "0xd4"

\* C10: a finished fetchEvents has fulfilled, never rejected; without a
\* public client its value is the empty list and no log query was issued;
\* when the query rejected, or anything was caught, the error is logged and
\* the value is the empty list.
C10_FetchNeverRejects ==
    phase = "done" =>
        /\ fetchOutcome = Fulfilled
        /\ ~publicClient => (result = <<>> /\ queries = 0 /\ fetched.kind = "none")
        /\ fetched.kind = "rejected" =>
              /\ result = <<>>
              /\ histConsole = <<Line("error", "Error fetching event history:", fetched.err)>>
        /\ HistErrorLines # {} => result = <<>>

\* The range query rejected with E1: the fetch still fulfilled, with [].
C10_Witness ==
    /\ phase = "done"
    /\ publicClient
    /\ queries = 1
    /\ fetched = [kind |-> "rejected", logs |-> <<>>, err |-> Err("E1")]
    /\ fetchOutcome = Fulfilled
    /\ result = <<>>

(***************************************************************************)
(* Specifications.                                                         *)
(***************************************************************************)
Init == AdapterIdle /\ EventsInit /\ HistoryInit

Next == NextAdapter \/ NextEvents \/ NextHistory

Spec == Init /\ [][Next]_vars

InitAdapter == AdapterIdle /\ EventsIdle /\ HistoryIdle

SpecAdapter == InitAdapter /\ [][NextAdapter]_vars

InitEvents == AdapterIdle /\ EventsInit /\ HistoryIdle

SpecEvents == InitEvents /\ [][NextEvents]_vars

InitHistory == AdapterIdle /\ EventsIdle /\ HistoryInit

SpecHistory == InitHistory /\ [][NextHistory]_vars

=============================================================================
